---- MODULE Spec2Model ----
(***************************************************************************)
(* memcookies: the server middleware of src/index.js (sealing cookies into *)
(* an encrypted bundle on the way out, restoring them on the way in) and   *)
(* the client-side store of src/unnamed/part_000.                          *)
(*                                                                         *)
(* Strings are modelled by records: a plain string is Str(s), the text     *)
(* JSON.stringify produces is JSONstringify(v), a sealed token is          *)
(* [pt |-> plaintext, ok |-> integrity tag still valid].  A JavaScript     *)
(* object is the sequence of its [k, v] properties in insertion order,     *)
(* keys unique.                                                            *)
(***************************************************************************)
EXTENDS Integers, Sequences, FiniteSets, TLC

VARIABLES
    now,            \* the clock read by (new Date()).getTime()
    pc,             \* "idle" | "downstream" | "sent" | "raised"
    page,           \* "loading": no response seen yet; "loaded": the page holds a store
    memcookies,     \* the client's store of README.md, "Manually"
    memhash,        \* the last x-cookies-hash the client received
    origin,         \* history: raw cookies and time of the last sealing
    req,            \* the request the middleware is handling
    reqCookie,      \* req.headers.cookie
    xCookies,       \* var xCookies of the middleware
    engaged,        \* res.setHeader is patched and the listener registered
    rawCookies,     \* var rawCookies of the middleware
    written,        \* history: the cookie strings downstream code has set
    fired,          \* the on-headers listener has run
    headWrites,     \* writeHead events seen on the response
    listenerRuns,   \* times the onHeaders listener body has run
    nativeSetCookie,\* the native response's Set-Cookie header
    nativeOther,    \* the native response's other header (Content-Type)
    lastCall,       \* history: the arguments downstream code last gave res.setHeader
    resXCookies,    \* the native response's X-cookies header
    resHash,        \* the native response's x-cookies-hash header
    locals,         \* res.locals.encryptedCookies
    nextCalls,      \* calls of next()
    error,          \* what the middleware threw, "none" if nothing
    cookies,        \* var cookies of the client module (part_000)
    clientGot,      \* history: extend-merge of every bundle given to setCookies
    clientCalls,    \* setCookies calls made so far
    clientError,    \* what the last client call threw, "none" if nothing
    clientSent,     \* the header value the set hook of patchXhr last gave
    hashed,         \* the last call of hashCookies: its two maps and its digest
    exchanges,      \* the exchanges one middleware instance serves side by side
    closures        \* var rawCookies of each call of the middleware function

vars == <<now, pc, page, memcookies, memhash, origin, req, reqCookie, xCookies,
          engaged, rawCookies, written, fired, headWrites, listenerRuns, nativeSetCookie,
          nativeOther, lastCall, resXCookies, resHash, locals, nextCalls, error,
          cookies, clientGot, clientCalls, clientError, clientSent, hashed,
          exchanges, closures>>

serverVars == <<now, pc, page, memcookies, memhash, origin, req, reqCookie,
                xCookies, engaged, rawCookies, written, fired, headWrites,
                listenerRuns, nativeSetCookie, nativeOther, lastCall, resXCookies,
                resHash, locals, nextCalls, error>>

clientVars == <<cookies, clientGot, clientCalls, clientError, clientSent>>

hasherVars == <<hashed>>

isolationVars == <<exchanges, closures>>

\* what a step of the middleware or of downstream code leaves alone
besideServer == <<clientVars, hasherVars, isolationVars>>

\* what a step of the client module leaves alone
besideClient == <<serverVars, hasherVars, isolationVars>>

-----------------------------------------------------------------------------
(* Bounds of the model *)

\* the clock runs over 0, TickMs, ..., MaxTicks * TickMs
MaxTicks == 2

\* rawCookies is capped at this many captured strings per response
MaxRaw == 2

\* setCookies calls the client model makes
MaxClientCalls == 3

\* writeHead events on one response
MaxHeadWrites == 2

\* exchanges served side by side
MaxExchanges == 2

\* cookie strings captured on each of them
MaxCaptured == 1

\* one step of the clock: ten minutes, in milliseconds
TickMs == 10 * 60 * 1000

-----------------------------------------------------------------------------
(* Strings, JSON values and JSON text *)

Str(s) == [kind |-> "plain", s |-> s]

JStr(s) == [t |-> "string", s |-> s, n |-> 0]

JNum(n) == [t |-> "number", s |-> "", n |-> n]

JArray(elems) == [t |-> "array", elems |-> elems]

JObject(obj) == [t |-> "object", obj |-> obj]

JNull == [t |-> "null"]

\* what reading a property that is not there gives
JUndefined == [t |-> "undefined"]

\* the characters of a string; the strings of the model other than "ab" are
\* empty or of one character
Chars(s) ==
    CASE s = "" -> <<>>
      [] s = "ab" -> <<"a", "b">>
      [] OTHER -> <<s>>

\* v[i] for an index i counted from 0
Index(v, i) ==
    CASE v.t = "array" ->
            IF i < Len(v.elems) THEN v.elems[i + 1] ELSE JUndefined
      [] v.t = "string" ->
            IF i < Len(Chars(v.s)) THEN JStr(Chars(v.s)[i + 1]) ELSE JUndefined
      [] v.t = "object" ->
            IF \E j \in DOMAIN v.obj : v.obj[j].k = ToString(i)
            THEN v.obj[CHOOSE j \in DOMAIN v.obj : v.obj[j].k = ToString(i)].v
            ELSE JUndefined
      [] OTHER -> JUndefined

\* v.length
LengthOf(v) ==
    CASE v.t = "array" -> JNum(Len(v.elems))
      [] v.t = "string" -> JNum(Len(Chars(v.s)))
      [] v.t = "object" ->
            IF \E j \in DOMAIN v.obj : v.obj[j].k = "length"
            THEN v.obj[CHOOSE j \in DOMAIN v.obj : v.obj[j].k = "length"].v
            ELSE JUndefined
      [] OTHER -> JUndefined

\* the number a value converts to in a comparison: [nan, n]
ToNumber(v) ==
    CASE v.t = "number" -> [nan |-> FALSE, n |-> v.n]
      [] v.t = "null" -> [nan |-> FALSE, n |-> 0]
      [] v.t = "string" /\ v.s = "" -> [nan |-> FALSE, n |-> 0]
      [] v.t = "string" /\ v.s = "1" -> [nan |-> FALSE, n |-> 1]
      [] v.t = "string" /\ v.s = "2" -> [nan |-> FALSE, n |-> 2]
      [] OTHER -> [nan |-> TRUE, n |-> 0]

\* the text a value converts to when it is added to a string
ToText(v) ==
    CASE v.t = "string" -> v.s
      [] v.t = "number" -> ToString(v.n)
      [] v.t = "null" -> "null"
      [] v.t = "undefined" -> "undefined"
      [] v.t = "array" -> "<array>"
      [] OTHER -> "[object Object]"

\* JSON.stringify(v): the text that parses back to v
JSONstringify(v) == [kind |-> "json", val |-> v]

\* String(x) of an object that is no string: "[object Object]"
ObjectToString(x) == Str("[object Object]")

\* JSON.parse(text): [thrown, val]; text that is no JSON text is a SyntaxError
JSONparse(text) ==
    IF text.kind = "json"
    THEN [thrown |-> FALSE, val |-> text.val]
    ELSE [thrown |-> TRUE, val |-> JStr("")]

\* JavaScript truthiness of a JSON value
Truthy(v) ==
    CASE v.t = "string" -> v.s # ""
      [] v.t = "number" -> v.n # 0
      [] v.t = "null" -> FALSE
      [] v.t = "undefined" -> FALSE
      [] OTHER -> TRUE

-----------------------------------------------------------------------------
(* JavaScript objects as ordered property lists *)

ObjHas(o, k) == \E i \in DOMAIN o : o[i].k = k

ObjGet(o, k) == o[CHOOSE i \in DOMAIN o : o[i].k = k].v

\* o[k] = v: an existing property keeps its place, a new one goes last
ObjSet(o, k, v) ==
    IF ObjHas(o, k)
    THEN [i \in DOMAIN o |-> IF o[i].k = k THEN [k |-> k, v |-> v] ELSE o[i]]
    ELSE Append(o, [k |-> k, v |-> v])

RECURSIVE extendFrom(_, _, _)
extendFrom(dst, src, i) ==
    IF i > Len(src) THEN dst
    ELSE extendFrom(ObjSet(dst, src[i].k, src[i].v), src, i + 1)

\* _.extend(dst, src) / jQuery.extend(dst, src)
extend(dst, src) == extendFrom(dst, src, 1)

-----------------------------------------------------------------------------
(* Configuration and the crypto engine (ppcrypto) *)

\* configuration.encryptionKey
encryptionKey == Str("key")

\* encrypt(text): ppcrypto.sealAndEncode, a token that unseals to text
encrypt(text) == [pt |-> text, ok |-> TRUE]

\* what ppcrypto.decodeAndUnseal(...).toString() can do with a token whose
\* integrity check fails: raise, or hand back nothing
DecryptFailureModes == {"throw", "empty"}

\* decrypt(encrypted_text): [thrown, text]
decrypt(encrypted_text, mode) ==
    IF encrypted_text.ok
    THEN [thrown |-> FALSE, text |-> encrypted_text.pt]
    ELSE [thrown |-> (mode = "throw"), text |-> Str("")]

\* parseData(data): data && JSON.parse(data) || '', '' when JSON.parse throws
parseData(data) ==
    IF data.kind = "plain" /\ data.s = "" THEN JStr("")
    ELSE IF JSONparse(data).thrown THEN JStr("")
    ELSE IF Truthy(JSONparse(data).val) THEN JSONparse(data).val
    ELSE JStr("")

-----------------------------------------------------------------------------
(* Cookie names, values and raw Set-Cookie strings *)

NameOrder == <<"a", "b">>

\* a raw Set-Cookie string "name=value" or "name=value; Expires=<date>"
RawCookie(n, v, h, e) == [name |-> n, value |-> v, hasExpires |-> h, expires |-> e]

\* the strings downstream code sets: a session cookie, one that asks for an
\* hour, one that asks for ten minutes
RawCookieStrings ==
    { RawCookie("a", "1", FALSE, 0),
      RawCookie("a", "2", TRUE, 6 * TickMs),
      RawCookie("b", "1", TRUE, TickMs),
      RawCookie("b", "2", FALSE, 0) }

\* cookiejar.Cookie(str): name, value and expiration_date (Infinity by default)
Cookie(str) ==
    [name |-> str.name, value |-> str.value,
     expiration_date |-> [inf |-> ~str.hasExpires,
                          t |-> IF str.hasExpires THEN str.expires ELSE 0]]

\* a slip: a declared expiry is taken as it is, the ceiling only without one
MathMinDeclared(expiration_date, maxExpiry) ==
    IF expiration_date.inf THEN maxExpiry ELSE expiration_date.t

\* Math.min(cookie.expiration_date, maxExpiry)
MathMin(expiration_date, maxExpiry) ==
    IF expiration_date.inf THEN maxExpiry
    ELSE IF expiration_date.t < maxExpiry THEN expiration_date.t
    ELSE maxExpiry

\* a slip: a ceiling of an hour
SixtyMinutes == 60 * 60 * 1000

\* 20 * 60 * 1000
TwentyMinutes == 20 * 60 * 1000

-----------------------------------------------------------------------------
(* The bundle hasher *)

\* the order Array.prototype.sort puts sealed names in
TokenRank(tok) ==
    2 * (CHOOSE i \in DOMAIN NameOrder : NameOrder[i] = tok.pt.s)
      + (IF tok.ok THEN 0 ELSE 1)

RECURSIVE SortKeys(_)
SortKeys(S) ==
    IF S = {} THEN <<>>
    ELSE LET m == CHOOSE x \in S : \A y \in S : TokenRank(x) <= TokenRank(y)
         IN <<m>> \o SortKeys(S \ {m})

\* hash(secret, text): the HMAC of text under secret
hash(secret, text) == [secret |-> secret, text |-> text]

\* a slip: _.extend({}, resCookies, reqCookies), the request's values winning
hashCookiesRequestWins(secret, reqCookies, resCookies) ==
    LET allCookies == extend(extend(<<>>, resCookies), reqCookies)
        sorted == SortKeys({allCookies[i].k : i \in DOMAIN allCookies})
        allCookiesString ==
            [i \in DOMAIN sorted |-> [k |-> sorted[i], v |-> ObjGet(allCookies, sorted[i])]]
    IN [secret |-> secret, text |-> allCookiesString]

\* a slip: Object.keys(allCookies) is not sorted
hashCookiesUnsorted(secret, reqCookies, resCookies) ==
    [secret |-> secret, text |-> extend(extend(<<>>, reqCookies), resCookies)]

\* hashCookies(secret, reqCookies, resCookies); the text joined from
\* name=value segments is the sequence of its segments
hashCookies(secret, reqCookies, resCookies) ==
    LET allCookies == extend(extend(<<>>, reqCookies), resCookies)
        sorted == SortKeys({allCookies[i].k : i \in DOMAIN allCookies})
        allCookiesString ==
            [i \in DOMAIN sorted |-> [k |-> sorted[i], v |-> ObjGet(allCookies, sorted[i])]]
    IN hash(secret, allCookiesString)

-----------------------------------------------------------------------------
(* The inbound restorer *)

\* MemCookiesError(message).code
MemCookiesError(message) == "EINVALIDMEMCOOKIES_" \o message

\* payload.length >= 2, false when the length converts to no number
PayloadLength(payload) ==
    ~ToNumber(LengthOf(payload)).nan /\ ToNumber(LengthOf(payload)).n >= 2

\* a slip: expiry < now
ExpiryLess(expiry, nowMs) ==
    ~ToNumber(expiry).nan /\ ToNumber(expiry).n < nowMs

\* expiry <= now, with JavaScript's conversion of expiry to a number
ExpiryLessEq(expiry, nowMs) ==
    ~ToNumber(expiry).nan /\ ToNumber(expiry).n <= nowMs

\* a slip: key + '=' + key
SegmentOfKey(key, val) == [name |-> key.s, value |-> key.s]

\* key + '=' + val, one segment of the cookie header
Segment(key, val) == [name |-> key.s, value |-> ToText(val)]

\* the callback of Object.keys(xCookies).map: [thrown, emit, pair]
restoreEntry(entry, nowMs, mode) ==
    LET key == decrypt(entry.k, mode)
        data == decrypt(entry.v, mode)
        payload == parseData(data.text)
        nothing == [name |-> "", value |-> ""]
    IN IF key.thrown \/ data.thrown
       THEN [thrown |-> TRUE, emit |-> FALSE, pair |-> nothing]
       ELSE IF key.text.s = "" \/ ~Truthy(payload) \/ ~PayloadLength(payload)
       THEN [thrown |-> FALSE, emit |-> FALSE, pair |-> nothing]
       ELSE IF ExpiryLessEq(Index(payload, 1), nowMs)
       THEN [thrown |-> FALSE, emit |-> FALSE, pair |-> nothing]
       ELSE [thrown |-> FALSE, emit |-> TRUE,
             pair |-> Segment(key.text, Index(payload, 0))]

RECURSIVE restoreFrom(_, _, _, _)
restoreFrom(obj, i, nowMs, mode) ==
    IF i > Len(obj) THEN [thrown |-> FALSE, pairs |-> <<>>]
    ELSE LET r == restoreEntry(obj[i], nowMs, mode)
             rest == restoreFrom(obj, i + 1, nowMs, mode)
         IN IF r.thrown \/ rest.thrown THEN [thrown |-> TRUE, pairs |-> <<>>]
            ELSE [thrown |-> FALSE,
                  pairs |-> IF r.emit THEN <<r.pair>> \o rest.pairs ELSE rest.pairs]

\* Object.keys(xCookies).map(...).filter(Boolean).join('; '): [thrown, pairs]
restore(obj, nowMs, mode) == restoreFrom(obj, 1, nowMs, mode)

\* !req.headers.cookie is false
CookieTruthy(c) == c.defined /\ c.pairs # <<>>

-----------------------------------------------------------------------------
(* The outbound capturer *)

\* name.toLowerCase()
toLowerCase(name) ==
    CASE name = "Set-Cookie" -> "set-cookie"
      [] name = "Content-Type" -> "content-type"
      [] OTHER -> name

RECURSIVE pushEach(_, _, _)
\* value.forEach: push a subvalue unless rawCookies.indexOf finds it
pushEach(raw, value, i) ==
    IF i > Len(value) THEN raw
    ELSE pushEach(IF \E j \in DOMAIN raw : raw[j] = value[i]
                  THEN raw ELSE Append(raw, value[i]),
                  value, i + 1)

\* a slip: an array value is not looked into
captureStrings(raw, value) ==
    IF value.isArray THEN raw ELSE Append(raw, value.items[1])

\* rawCookies after the patched setHeader has seen a Set-Cookie value
capture(raw, value) ==
    IF value.isArray THEN pushEach(raw, value.items, 1)
    ELSE Append(raw, value.items[1])

RECURSIVE sealFrom(_, _, _, _)
sealFrom(bundle, raw, i, maxExpiry) ==
    IF i > Len(raw) THEN bundle
    ELSE LET cookie == Cookie(raw[i])
             payload == JArray(<<JStr(cookie.value),
                                 JNum(MathMin(cookie.expiration_date, maxExpiry))>>)
         IN sealFrom(ObjSet(bundle, encrypt(Str(cookie.name)),
                            encrypt(JSONstringify(payload))),
                     raw, i + 1, maxExpiry)

\* the rawCookies.forEach of the onHeaders listener: the cookies object
seal(raw, maxExpiry) == sealFrom(<<>>, raw, 1, maxExpiry)

-----------------------------------------------------------------------------
(* Requests *)

NoHash == [present |-> FALSE, val |-> hash(Str(""), <<>>)]

NoRequest ==
    [xhr |-> FALSE, channel |-> "none", bundle |-> <<>>, hash |-> NoHash,
     browserCookie |-> FALSE, meta |-> "absent", body |-> <<>>]

NoCookieHeader == [defined |-> FALSE, pairs |-> <<>>]

\* the cookie header of a browser whose cookie jar works
BrowserCookieHeader == [defined |-> TRUE, pairs |-> <<[name |-> "n", value |-> "0"]>>]

NoXCookies == [truthy |-> FALSE, obj |-> <<>>]

NoSetCookie == [set |-> FALSE, isArray |-> FALSE, items |-> <<>>]

NoOther == [set |-> FALSE, val |-> Str("")]

NoCall == [setCookie |-> NoSetCookie, other |-> NoOther]

NoXCookiesHeader == [set |-> FALSE, text |-> Str("")]

NoHashHeader == [set |-> FALSE, val |-> hash(Str(""), <<>>)]

NoLocals == [set |-> FALSE, obj |-> <<>>]

NoOrigin == [sealed |-> FALSE, raws |-> <<>>, at |-> 0]

\* one byte of a sealed token changed: its integrity check fails
Tamper(tok) == [tok EXCEPT !.ok = FALSE]

\* what a client holding store can send as its bundle: the store, or the store
\* with the sealed name or the sealed payload of one entry tampered with
InboundBundles(store) ==
    {store}
    \cup {[store EXCEPT ![i].k = Tamper(store[i].k)] : i \in DOMAIN store}
    \cup {[store EXCEPT ![i].v = Tamper(store[i].v)] : i \in DOMAIN store}

\* a hash made without the server's key
Forged == [present |-> TRUE, val |-> hash(Str("forged"), <<>>)]

\* the x-cookies-hash headers a client can send: none, one it made up, the one
\* it last received from the server
HashHeaders(received) ==
    {NoHash, Forged} \cup (IF received.present THEN {received} ELSE {})

\* a request; bundle is the bundle its channel carries, the header's when
\* both carry one; a bundle in the body metadata comes in req.body.meta
Request(xhr, channel, bundle, h, browserCookie) ==
    [xhr |-> xhr, channel |-> channel, bundle |-> bundle, hash |-> h,
     browserCookie |-> browserCookie,
     meta |-> IF channel \in {"body", "both"} THEN "body" ELSE "absent",
     body |-> IF channel \in {"body", "both"} THEN bundle ELSE <<>>]

\* where an AJAX request without a bundle has its metadata: in a
\* req.query.meta that is JSON text, in a req.query.meta that is not
QueryMetas == {"query", "garbage"}

\* the text of req.query.meta
QueryMetaText(m) ==
    IF m = "garbage" THEN Str("{meta") ELSE JSONstringify(JObject(<<>>))

\* a request that carries no bundle: a navigation, or a client that does not
\* use memcookies, with no metadata or with metadata in its query
NoBundleRequests ==
    {Request(xhr, "none", <<>>, NoHash, bc) : xhr \in BOOLEAN, bc \in BOOLEAN}
    \cup {[Request(TRUE, "none", <<>>, NoHash, bc) EXCEPT !.meta = m] :
            bc \in BOOLEAN, m \in QueryMetas}

\* a request of a client that sends bundle b: in the X-cookies header, in the
\* body metadata with some x-cookies-hash header, or in the header with the
\* untouched store in the body metadata
BundleRequests(b, store, received) ==
    {Request(xhr, "header", b, NoHash, FALSE) : xhr \in BOOLEAN}
    \cup {Request(xhr, "body", b, h, FALSE) :
            xhr \in BOOLEAN, h \in HashHeaders(received)}
    \cup {[Request(TRUE, "both", b, h, FALSE) EXCEPT !.body = store] :
            h \in HashHeaders(received)}

\* the requests that can arrive: the first request of a page may carry no
\* bundle; a client that uses memcookies sends its store, as it is or tampered
Requests(p, store, received) ==
    (IF p = "loading" THEN NoBundleRequests ELSE {})
    \cup UNION {BundleRequests(b, store, received) : b \in InboundBundles(store)}

\* the requests of a page that is navigated to and then sends its store
\* untouched, with the hash it received
CleanRequests(p, store, received) ==
    IF p = "loading"
    THEN {Request(FALSE, "none", <<>>, NoHash, bc) : bc \in BOOLEAN}
    ELSE {Request(TRUE, "header", store, NoHash, FALSE)}
         \cup (IF received.present
               THEN {Request(TRUE, "body", store, received, FALSE)} ELSE {})

\* the texts a sealed payload can unseal to: no JSON at all, JSON that is no
\* array, arrays of fewer than two elements, and pairs
PayloadTexts ==
    { Str(""), Str("garbage"),
      JSONstringify(JNull),
      JSONstringify(JNum(0)), JSONstringify(JNum(7)),
      JSONstringify(JStr("x")), JSONstringify(JStr("ab")),
      JSONstringify(JObject(<<>>)),
      JSONstringify(JObject(<<[k |-> "length", v |-> JNum(2)]>>)),
      JSONstringify(JArray(<<>>)),
      JSONstringify(JArray(<<JStr("1")>>)),
      JSONstringify(JArray(<<JStr("1"), JNull>>)),
      JSONstringify(JArray(<<JStr("1"), JNum(TickMs)>>)) }

\* bundles whose entry "a" unseals to any of these texts, alone or before a
\* well-formed entry "b"
ShapedBundles ==
    LET a(text) == [k |-> encrypt(Str("a")), v |-> encrypt(text)]
        b == [k |-> encrypt(Str("b")),
              v |-> encrypt(JSONstringify(JArray(<<JStr("2"), JNum(3 * TickMs)>>)))]
    IN {<<a(text)>> : text \in PayloadTexts}
       \cup {<<a(text), b>> : text \in PayloadTexts}

\* requests that bring such a bundle in the X-cookies header
ShapedRequests == {Request(TRUE, "header", b, NoHash, FALSE) : b \in ShapedBundles}

-----------------------------------------------------------------------------
(* The middleware: function (req, res, next) *)

\* a slip: the presence of the hash header is all that is checked
hashUnchecked(xCookiesBody, xCookiesHash) == TRUE

\* hashCookies(configuration.encryptionKey, xCookiesBody) === xCookiesHash
hashMatches(xCookiesBody, xCookiesHash) ==
    hashCookies(encryptionKey, xCookiesBody, <<>>) = xCookiesHash

\* a slip: a bundle in the body metadata is taken before the header's
takesBodyFirst(fromHeader, bodyPresent) == bodyPresent

\* !xCookies && xCookiesBody
takesBody(fromHeader, bodyPresent) == ~Truthy(fromHeader) /\ bodyPresent

\* a slip: the capture is installed on every request
engagesAlways(x, xhr) == TRUE

\* xCookies || !req.xhr
engages(x, xhr) == x.truthy \/ ~xhr

\* the outcome of the middleware's body on a request: what it threw, and the
\* values of xCookies, req.headers.cookie, the engagement and next() it left
middleware(r, nowMs, mode) ==
    LET headerText == IF r.channel \in {"header", "both"}
                      THEN JSONstringify(JObject(r.bundle)) ELSE Str("")
        bodyPresent == r.channel \in {"body", "both"}
        cookie0 == IF r.browserCookie THEN BrowserCookieHeader ELSE NoCookieHeader
        fromHeader == parseData(headerText)
        viaBody == takesBody(fromHeader, bodyPresent)
        xCookiesBody == JSONparse(JSONstringify(JObject(r.body))).val
        failed(code) ==
            [error |-> code, xCookies |-> NoXCookies, cookie |-> cookie0,
             engaged |-> FALSE, nextCalls |-> 0]
        x == IF viaBody THEN [truthy |-> TRUE, obj |-> xCookiesBody.obj]
             ELSE IF Truthy(fromHeader) THEN [truthy |-> TRUE, obj |-> fromHeader.obj]
             ELSE NoXCookies
        restored == restore(x.obj, nowMs, mode)
    IN IF r.meta \in {"query", "garbage"} /\ JSONparse(QueryMetaText(r.meta)).thrown
       THEN failed("SyntaxError")
       ELSE IF viaBody /\ ~r.hash.present
       THEN failed(MemCookiesError("BODY_COOKIE_HASH_HEADER_MISSING"))
       ELSE IF viaBody /\ ~hashMatches(xCookiesBody.obj, r.hash.val)
       THEN failed(MemCookiesError("BODY_COOKIE_HASH_MISMATCH"))
       ELSE IF x.truthy /\ restored.thrown
       THEN failed("DecryptError")
       ELSE [error |-> "none",
             xCookies |-> x,
             cookie |-> IF x.truthy
                        THEN [defined |-> TRUE, pairs |-> restored.pairs]
                        ELSE cookie0,
             engaged |-> engages(x, r.xhr),
             nextCalls |-> 1]

\* the middleware runs on a request drawn from R
MiddlewareOn(R) ==
    /\ pc = "idle"
    /\ \E r \in R, mode \in DecryptFailureModes :
          LET out == middleware(r, now, mode)
          IN /\ req' = r
             /\ error' = out.error
             /\ xCookies' = out.xCookies
             /\ reqCookie' = out.cookie
             /\ engaged' = out.engaged
             /\ nextCalls' = out.nextCalls
             /\ pc' = IF out.error = "none" THEN "downstream" ELSE "raised"
    /\ rawCookies' = <<>>
    /\ written' = {}
    /\ fired' = FALSE
    /\ headWrites' = 0
    /\ listenerRuns' = 0
    /\ nativeSetCookie' = NoSetCookie
    /\ nativeOther' = NoOther
    /\ lastCall' = NoCall
    /\ resXCookies' = NoXCookiesHeader
    /\ resHash' = NoHashHeader
    /\ locals' = NoLocals
    /\ UNCHANGED <<now, page, memcookies, memhash, origin>>
    /\ UNCHANGED besideServer

Middleware == MiddlewareOn(Requests(page, memcookies, memhash))

-----------------------------------------------------------------------------
(* Downstream code: header writes and the finalization of the head *)

\* the values downstream code passes for Set-Cookie: one string, or an array
SingleValues == {[isArray |-> FALSE, items |-> <<c>>] : c \in RawCookieStrings}

ArrayValues ==
    {[isArray |-> TRUE, items |-> <<c>>] : c \in RawCookieStrings}
    \cup {[isArray |-> TRUE, items |-> <<c, d>>] :
            c \in RawCookieStrings, d \in RawCookieStrings}

SetCookieValues == SingleValues \cup ArrayValues

\* the native res.setHeader
nativeSetHeader(name, value) ==
    IF toLowerCase(name) = "set-cookie"
    THEN /\ nativeSetCookie' =
              [set |-> TRUE, isArray |-> value.isArray, items |-> value.items]
         /\ nativeOther' = nativeOther
    ELSE /\ nativeOther' = [set |-> TRUE, val |-> value]
         /\ nativeSetCookie' = nativeSetCookie

\* a slip: a captured Set-Cookie write never reaches the native setHeader
patchedSetHeaderWithheld(name, value) ==
    IF toLowerCase(name) = "set-cookie"
    THEN /\ rawCookies' = capture(rawCookies, value)
         /\ UNCHANGED <<nativeSetCookie, nativeOther>>
    ELSE /\ rawCookies' = rawCookies
         /\ nativeSetHeader(name, value)

\* res.setHeader as the middleware patches it
patchedSetHeader(name, value) ==
    IF toLowerCase(name) = "set-cookie"
    THEN /\ rawCookies' = capture(rawCookies, value)
         /\ IF ~xCookies.truthy
            THEN nativeSetHeader(name, value)
            ELSE UNCHANGED <<nativeSetCookie, nativeOther>>
    ELSE /\ rawCookies' = rawCookies
         /\ nativeSetHeader(name, value)

\* res.setHeader(name, value) called by downstream code
SetHeaderCall(name, value) ==
    /\ pc = "downstream"
    /\ IF engaged
       THEN patchedSetHeader(name, value)
       ELSE rawCookies' = rawCookies /\ nativeSetHeader(name, value)
    /\ Len(rawCookies') <= MaxRaw
    /\ written' = IF toLowerCase(name) = "set-cookie"
                  THEN written \cup {value.items[i] : i \in DOMAIN value.items}
                  ELSE written
    /\ lastCall' = IF toLowerCase(name) = "set-cookie"
                   THEN [lastCall EXCEPT !.setCookie =
                            [set |-> TRUE, isArray |-> value.isArray, items |-> value.items]]
                   ELSE [lastCall EXCEPT !.other = [set |-> TRUE, val |-> value]]
    /\ UNCHANGED <<now, pc, page, memcookies, memhash, origin, req, reqCookie,
                   xCookies, engaged, fired, headWrites, listenerRuns,
                   resXCookies, resHash, locals, nextCalls, error>>
    /\ UNCHANGED besideServer

\* downstream code sets a cookie
SetCookie ==
    \E name \in {"Set-Cookie", "set-cookie"}, value \in SetCookieValues :
        SetHeaderCall(name, value)

\* downstream code sets one cookie string at a time
SetCookieSingle == \E value \in SingleValues : SetHeaderCall("Set-Cookie", value)

\* downstream code sets another header
SetOther == SetHeaderCall("Content-Type", Str("text/html"))

\* the older listener (part_001): the header if a bundle came in, else res.locals
listenerEitherOr(raw, x, cookie, nowMs) ==
    LET sealed == seal(raw, nowMs + TwentyMinutes)
    IN [locals |-> IF x.truthy THEN NoLocals ELSE [set |-> TRUE, obj |-> sealed],
        xCookiesHeader |->
            IF x.truthy
            THEN [set |-> TRUE, text |-> JSONstringify(JObject(sealed))]
            ELSE NoXCookiesHeader,
        hashHeader |-> NoHashHeader]

\* a slip: the hash covers the new bundle only
listenerHashesOutbound(raw, x, cookie, nowMs) ==
    LET sealed == seal(raw, nowMs + TwentyMinutes)
        deliver == x.truthy \/ ~CookieTruthy(cookie)
    IN [locals |-> [set |-> TRUE, obj |-> sealed],
        xCookiesHeader |->
            IF deliver
            THEN [set |-> TRUE, text |-> JSONstringify(JObject(sealed))]
            ELSE NoXCookiesHeader,
        hashHeader |->
            IF deliver
            THEN [set |-> TRUE, val |-> hashCookies(encryptionKey, <<>>, sealed)]
            ELSE NoHashHeader]

\* the body of the onHeaders listener: what it leaves in res.locals and in the
\* X-cookies and x-cookies-hash headers
listener(raw, x, cookie, nowMs) ==
    LET maxExpiry == nowMs + TwentyMinutes
        sealed == seal(raw, maxExpiry)
        deliver == x.truthy \/ ~CookieTruthy(cookie)
    IN [locals |-> [set |-> TRUE, obj |-> sealed],
        xCookiesHeader |->
            IF deliver
            THEN [set |-> TRUE, text |-> JSONstringify(JObject(sealed))]
            ELSE NoXCookiesHeader,
        hashHeader |->
            IF deliver
            THEN [set |-> TRUE, val |-> hashCookies(encryptionKey, x.obj, sealed)]
            ELSE NoHashHeader]

\* a slip: the listener runs at every write of the head
WriteHeadEveryTime ==
    /\ pc \in {"downstream", "sent"}
    /\ headWrites < MaxHeadWrites
    /\ headWrites' = headWrites + 1
    /\ pc' = "sent"
    /\ IF engaged
       THEN LET out == listener(rawCookies, xCookies, reqCookie, now)
            IN /\ fired' = TRUE
               /\ listenerRuns' = listenerRuns + 1
               /\ locals' = out.locals
               /\ resXCookies' = out.xCookiesHeader
               /\ resHash' = out.hashHeader
               /\ origin' = [sealed |-> TRUE, raws |-> rawCookies, at |-> now]
       ELSE UNCHANGED <<fired, listenerRuns, locals, resXCookies, resHash, origin>>
    /\ UNCHANGED <<now, page, memcookies, memhash, req, reqCookie, xCookies,
                   engaged, rawCookies, written, nativeSetCookie, nativeOther, lastCall,
                   nextCalls, error>>
    /\ UNCHANGED besideServer

\* res.writeHead: on-headers runs the listener the first time only
WriteHead ==
    /\ pc \in {"downstream", "sent"}
    /\ headWrites < MaxHeadWrites
    /\ headWrites' = headWrites + 1
    /\ pc' = "sent"
    /\ IF engaged /\ ~fired
       THEN LET out == listener(rawCookies, xCookies, reqCookie, now)
            IN /\ fired' = TRUE
               /\ listenerRuns' = listenerRuns + 1
               /\ locals' = out.locals
               /\ resXCookies' = out.xCookiesHeader
               /\ resHash' = out.hashHeader
               /\ origin' = [sealed |-> TRUE, raws |-> rawCookies, at |-> now]
       ELSE UNCHANGED <<fired, listenerRuns, locals, resXCookies, resHash, origin>>
    /\ UNCHANGED <<now, page, memcookies, memhash, req, reqCookie, xCookies,
                   engaged, rawCookies, written, nativeSetCookie, nativeOther, lastCall,
                   nextCalls, error>>
    /\ UNCHANGED besideServer

-----------------------------------------------------------------------------
(* The client of README.md, "Manually", and the clock *)

\* the bundle a response hands to the client: the X-cookies header, or for the
\* first page res.locals.encryptedCookies rendered into it
Received ==
    IF resXCookies.set THEN JSONparse(resXCookies.text).val.obj
    ELSE IF locals.set THEN locals.obj
    ELSE <<>>

ResetExchange ==
    /\ req' = NoRequest
    /\ reqCookie' = NoCookieHeader
    /\ xCookies' = NoXCookies
    /\ engaged' = FALSE
    /\ rawCookies' = <<>>
    /\ written' = {}
    /\ fired' = FALSE
    /\ headWrites' = 0
    /\ listenerRuns' = 0
    /\ nativeSetCookie' = NoSetCookie
    /\ nativeOther' = NoOther
    /\ lastCall' = NoCall
    /\ resXCookies' = NoXCookiesHeader
    /\ resHash' = NoHashHeader
    /\ locals' = NoLocals
    /\ nextCalls' = 0
    /\ error' = "none"

\* jQuery.extend(memcookies, newcookies) on the first response of the page
ClientPersist ==
    /\ pc = "sent"
    /\ page = "loading"
    /\ memcookies' = extend(memcookies, Received)
    /\ memhash' = IF resHash.set THEN [present |-> TRUE, val |-> resHash.val]
                  ELSE memhash
    /\ page' = "loaded"
    /\ pc' = "idle"
    /\ ResetExchange
    /\ UNCHANGED <<now, origin>>
    /\ UNCHANGED besideServer

\* the page is left: the store in its memory is gone
PageUnload ==
    /\ pc \in {"sent", "raised"}
    /\ page = "loaded" \/ pc = "raised"
    /\ page' = "loading"
    /\ pc' = "idle"
    /\ memcookies' = <<>>
    /\ memhash' = NoHash
    /\ origin' = NoOrigin
    /\ ResetExchange
    /\ UNCHANGED now
    /\ UNCHANGED besideServer

\* time passes between two requests
Tick ==
    /\ pc = "idle"
    /\ now < MaxTicks * TickMs
    /\ now' = now + TickMs
    /\ UNCHANGED <<pc, page, memcookies, memhash, origin, req, reqCookie,
                   xCookies, engaged, rawCookies, written, fired, headWrites, listenerRuns,
                   nativeSetCookie, nativeOther, lastCall, resXCookies, resHash, locals,
                   nextCalls, error>>
    /\ UNCHANGED besideServer

-----------------------------------------------------------------------------
(* The client module (part_000) *)

\* the bundles a server response can carry
ClientBundles ==
    {seal(<<c>>, t * TickMs + TwentyMinutes) : c \in RawCookieStrings, t \in 0..MaxTicks}

\* setCookies(json): extend(cookies, JSON.parse(cookies))
setCookies(json) ==
    /\ clientCalls < MaxClientCalls
    /\ clientCalls' = clientCalls + 1
    /\ clientGot' = extend(clientGot, JSONparse(json).val.obj)
    /\ LET parsed == JSONparse(ObjectToString(cookies))
       IN IF parsed.thrown
          THEN /\ clientError' = "SyntaxError"
               /\ cookies' = cookies
          ELSE /\ clientError' = "none"
               /\ cookies' = extend(cookies, parsed.val.obj)
    /\ UNCHANGED clientSent
    /\ UNCHANGED besideClient

\* getCookies(): JSON.stringify(cookies)
getCookies == JSONstringify(JObject(cookies))

\* the get hook of patchXhr: a response's x-cookies header reaches setCookies
XhrReceive == \E b \in ClientBundles : setCookies(JSONstringify(JObject(b)))

\* the set hook of patchXhr: a request's x-cookies header is getCookies()
XhrSend ==
    /\ clientSent' = getCookies
    /\ UNCHANGED <<cookies, clientGot, clientCalls, clientError>>
    /\ UNCHANGED besideClient

-----------------------------------------------------------------------------
(* Calls of hashCookies on maps built in every insertion order *)

NotHashed == [set |-> FALSE, reqCookies |-> <<>>, resCookies |-> <<>>,
              digest |-> hash(Str(""), <<>>)]

\* cookie maps of up to two names, with either name inserted first
CookieMaps ==
    {<<>>}
    \cup {seal(<<c>>, TwentyMinutes) : c \in RawCookieStrings}
    \cup {seal(<<c, d>>, TwentyMinutes) : c \in RawCookieStrings, d \in RawCookieStrings}

\* hashCookies(configuration.encryptionKey, reqCookies, resCookies)
HashCookies ==
    /\ \E reqCookies \in CookieMaps, resCookies \in CookieMaps :
          hashed' = [set |-> TRUE, reqCookies |-> reqCookies, resCookies |-> resCookies,
                     digest |-> hashCookies(encryptionKey, reqCookies, resCookies)]
    /\ UNCHANGED <<serverVars, clientVars, isolationVars>>

-----------------------------------------------------------------------------
(* Exchanges served side by side by one middleware instance *)

Exchanges == 1..MaxExchanges

NoExchange ==
    [pc |-> "idle", req |-> NoRequest, xCookies |-> NoXCookies,
     cookie |-> NoCookieHeader, engaged |-> FALSE, written |-> {},
     locals |-> NoLocals, xCookiesHeader |-> NoXCookiesHeader,
     hashHeader |-> NoHashHeader]

\* a slip: rawCookies is one variable of the module, shared by every call
closureShared(i) == 1

\* the closure a call of function (req, res, next) creates: its own
\* rawCookies, xCookies and setHeader
closure(i) == i

\* the bundle a page already holds
HeldBundle == seal(<<RawCookie("a", "2", TRUE, 6 * TickMs)>>, TwentyMinutes)

\* a page render without a bundle, an AJAX request that brings one
SideBySideRequests ==
    { Request(FALSE, "none", <<>>, NoHash, FALSE),
      Request(TRUE, "header", HeldBundle, NoHash, FALSE) }

\* the cookie strings downstream code sets on these responses
SideBySideValues ==
    {[isArray |-> FALSE, items |-> <<c>>] :
        c \in {RawCookie("a", "1", FALSE, 0), RawCookie("b", "2", FALSE, 0)}}

\* the middleware is called for exchange i
Handle(i) ==
    /\ exchanges[i].pc = "idle"
    /\ \E r \in SideBySideRequests :
          LET out == middleware(r, now, "throw")
          IN /\ out.error = "none"
             /\ exchanges' = [exchanges EXCEPT ![i] =
                    [NoExchange EXCEPT !.pc = "downstream", !.req = r,
                                       !.xCookies = out.xCookies,
                                       !.cookie = out.cookie,
                                       !.engaged = out.engaged]]
             /\ closures' = IF out.engaged
                            THEN [closures EXCEPT ![closure(i)] = <<>>]
                            ELSE closures
    /\ UNCHANGED <<serverVars, clientVars, hasherVars>>

\* downstream code of exchange i calls its res.setHeader('Set-Cookie', value)
ResSetHeader(i) ==
    /\ exchanges[i].pc = "downstream"
    /\ exchanges[i].engaged
    /\ \E value \in SideBySideValues :
          /\ closures' = [closures EXCEPT
                            ![closure(i)] = capture(closures[closure(i)], value)]
          /\ Len(closures'[closure(i)]) <= MaxCaptured
          /\ exchanges' = [exchanges EXCEPT
                             ![i].written = @ \cup {value.items[1]}]
    /\ UNCHANGED <<serverVars, clientVars, hasherVars>>

\* the head of response i is written: its listener runs
ResWriteHead(i) ==
    /\ exchanges[i].pc = "downstream"
    /\ exchanges[i].engaged
    /\ LET out == listener(closures[closure(i)], exchanges[i].xCookies,
                           exchanges[i].cookie, now)
       IN exchanges' = [exchanges EXCEPT ![i].pc = "sent",
                                         ![i].locals = out.locals,
                                         ![i].xCookiesHeader = out.xCookiesHeader,
                                         ![i].hashHeader = out.hashHeader]
    /\ UNCHANGED closures
    /\ UNCHANGED <<serverVars, clientVars, hasherVars>>

\* response i has gone out
ResEnd(i) ==
    /\ exchanges[i].pc = "sent"
    /\ exchanges' = [exchanges EXCEPT ![i] = NoExchange]
    /\ UNCHANGED closures
    /\ UNCHANGED <<serverVars, clientVars, hasherVars>>

-----------------------------------------------------------------------------
(* Specifications *)

Init ==
    /\ now = 0
    /\ pc = "idle"
    /\ page = "loading"
    /\ memcookies = <<>>
    /\ memhash = NoHash
    /\ origin = NoOrigin
    /\ req = NoRequest
    /\ reqCookie = NoCookieHeader
    /\ xCookies = NoXCookies
    /\ engaged = FALSE
    /\ rawCookies = <<>>
    /\ written = {}
    /\ fired = FALSE
    /\ headWrites = 0
    /\ listenerRuns = 0
    /\ nativeSetCookie = NoSetCookie
    /\ nativeOther = NoOther
    /\ lastCall = NoCall
    /\ resXCookies = NoXCookiesHeader
    /\ resHash = NoHashHeader
    /\ locals = NoLocals
    /\ nextCalls = 0
    /\ error = "none"
    /\ cookies = <<>>
    /\ clientGot = <<>>
    /\ clientCalls = 0
    /\ clientError = "none"
    /\ clientSent = Str("")
    /\ hashed = NotHashed
    /\ exchanges = [i \in Exchanges |-> NoExchange]
    /\ closures = [i \in Exchanges |-> <<>>]

\* the first exchange of a page: every header write, every head write
Next ==
    \/ page = "loading" /\ Middleware
    \/ SetCookie
    \/ SetOther
    \/ WriteHead
    \/ ClientPersist
    \/ PageUnload
    \/ Tick

Spec == Init /\ [][Next]_vars

\* a page's first exchange, then the request that replays what it was handed,
\* as it is or tampered with
NextReplay ==
    \/ Middleware
    \/ page = "loading" /\ SetCookie
    \/ headWrites = 0 /\ WriteHead
    \/ ClientPersist
    \/ PageUnload
    \/ page = "loaded" /\ Tick

SpecReplay == Init /\ [][NextReplay]_vars

\* a page's first exchange, then an exchange that replays the store untouched
\* and sets cookies of its own
NextAjax ==
    \/ MiddlewareOn(CleanRequests(page, memcookies, memhash))
    \/ SetCookieSingle
    \/ headWrites = 0 /\ WriteHead
    \/ ClientPersist
    \/ PageUnload
    \/ page = "loaded" /\ Tick

SpecAjax == Init /\ [][NextAjax]_vars

NextClient == XhrReceive \/ XhrSend

SpecClient == Init /\ [][NextClient]_vars

\* requests whose sealed payloads are of every shape
NextDecode ==
    \/ MiddlewareOn(ShapedRequests)
    \/ headWrites = 0 /\ WriteHead
    \/ ClientPersist
    \/ PageUnload
    \/ Tick

SpecDecode == Init /\ [][NextDecode]_vars

\* every interleaving of the steps of the exchanges
NextSideBySide ==
    \E i \in Exchanges :
        \/ Handle(i)
        \/ ResSetHeader(i)
        \/ ResWriteHead(i)
        \/ ResEnd(i)

SpecSideBySide == Init /\ [][NextSideBySide]_vars

NextHasher == HashCookies

SpecHasher == Init /\ [][NextHasher]_vars

-----------------------------------------------------------------------------
(* Helpers of the properties *)

\* the name=value pairs of a cookie header, order aside
PairSet(c) == {c.pairs[i] : i \in DOMAIN c.pairs}

\* the declared expiry of a raw cookie string is after time t
ExpiresAfter(c, t) == ~c.hasExpires \/ c.expires > t

\* the expiry an entry sealed at time t is to carry
EffectiveExpiry(c, t) ==
    IF c.hasExpires /\ c.expires < t + TwentyMinutes THEN c.expires
    ELSE t + TwentyMinutes

\* the positions of raw that hold the last cookie set under each name
LastOfName(raw) ==
    {i \in DOMAIN raw : \A j \in DOMAIN raw : j > i => raw[j].name # raw[i].name}

\* the middleware has restored, on the page's second request, exactly the bundle
\* that the page's first response sealed
RoundTripState ==
    /\ pc = "downstream"
    /\ page = "loaded"
    /\ origin.sealed
    /\ xCookies.truthy
    /\ xCookies.obj = memcookies
    /\ req.bundle = memcookies

\* an entry of a bundle whose sealed name and sealed payload are both intact
Intact(entry) == entry.k.ok /\ entry.v.ok

\* the expiry inside the sealed payload of an intact entry
SealedExpiry(entry) == entry.v.pt.val.elems[2].n

\* the name=value pair inside an intact entry
SealedPair(entry) == [name |-> entry.k.pt.s, value |-> entry.v.pt.val.elems[1].s]

RECURSIVE ValidPairsFrom(_, _, _)
ValidPairsFrom(obj, i, t) ==
    IF i > Len(obj) THEN <<>>
    ELSE (IF Intact(obj[i]) /\ SealedExpiry(obj[i]) > t
          THEN <<SealedPair(obj[i])>> ELSE <<>>)
         \o ValidPairsFrom(obj, i + 1, t)

\* the pairs of the intact, unexpired entries of a bundle, in bundle order
ValidPairs(obj, t) == ValidPairsFrom(obj, 1, t)

\* the middleware has handled a request whose trusted bundle holds an entry
\* that was tampered with
TamperedHandled ==
    /\ pc \in {"downstream", "raised"}
    /\ req.channel = "header"
    /\ \E i \in DOMAIN req.bundle : ~Intact(req.bundle[i])

-----------------------------------------------------------------------------
(* Properties *)

\* C1 as stated: whatever cookies (expiry in the future) a response set, the
\* bundle sealed from them restores to exactly their name=value pairs, for
\* every cookie whose expiry is after the restoration time.
C1_RoundTripAsStated ==
    (RoundTripState /\ \A i \in DOMAIN origin.raws : ExpiresAfter(origin.raws[i], origin.at))
    => PairSet(reqCookie) =
         {[name |-> origin.raws[i].name, value |-> origin.raws[i].value] :
             i \in {j \in DOMAIN origin.raws : ExpiresAfter(origin.raws[j], now)}}

\* C1 amended: the bundle sealed at time T from the cookies a response set
\* restores to exactly one name=value pair per cookie name, the pair of the
\* cookie last set under that name, for every name whose last cookie has
\* min(declared expiry, T + 20 minutes) after the restoration time.
C1_RoundTrip ==
    RoundTripState
    => /\ PairSet(reqCookie) =
            {[name |-> origin.raws[i].name, value |-> origin.raws[i].value] :
                i \in {j \in LastOfName(origin.raws) :
                          EffectiveExpiry(origin.raws[j], origin.at) > now}}
       /\ \A i, j \in DOMAIN reqCookie.pairs :
            reqCookie.pairs[i].name = reqCookie.pairs[j].name => i = j

\* C1 witness: two cookies of different names came back from the bundle some
\* time after it was sealed
C1_Witness ==
    /\ RoundTripState
    /\ Len(reqCookie.pairs) = 2
    /\ now > origin.at

\* C2 as stated: an entry of a trusted bundle that fails decryption is dropped
\* alone: the middleware raises nothing and restores every other intact,
\* unexpired entry.
C2_TamperedEntryDropped ==
    TamperedHandled
    => /\ error = "none"
       /\ reqCookie.defined
       /\ reqCookie.pairs = ValidPairs(req.bundle, now)

C4_RecordedOnce ==
    engaged
    => /\ \A i, j \in DOMAIN rawCookies : rawCookies[i] = rawCookies[j] => i = j
       /\ {rawCookies[i] : i \in DOMAIN rawCookies} = written

\* the request brought its bundle in the body metadata only
BodyOnly == req.channel = "body" /\ pc \in {"downstream", "sent", "raised"}

\* the x-cookies-hash header of the request is present and is the keyed hash
\* of the bundle in its body
GoodHash ==
    /\ req.hash.present
    /\ req.hash.val = hashCookies(encryptionKey, req.bundle, <<>>)

\* C5: a bundle that arrives only in the body metadata is accepted exactly when
\* the x-cookies-hash header is present and is the keyed hash of that bundle;
\* when it is missing or differs a MemCookiesError is raised, no cookie
\* header is installed, nothing is intercepted and next() is not called.
C5_BodyHash ==
    BodyOnly
    => /\ error = "none" <=> GoodHash
       /\ error = "none" => nextCalls = 1 /\ xCookies.truthy /\ xCookies.obj = req.bundle
       /\ ~req.hash.present
            => error = MemCookiesError("BODY_COOKIE_HASH_HEADER_MISSING")
       /\ (req.hash.present /\ ~GoodHash)
            => error = MemCookiesError("BODY_COOKIE_HASH_MISMATCH")
       /\ ~GoodHash
            => /\ pc = "raised"
               /\ ~reqCookie.defined
               /\ ~xCookies.truthy
               /\ ~engaged
               /\ nextCalls = 0

\* C5 witness: a body bundle of two entries came with its hash and was accepted
C5_Witness ==
    /\ BodyOnly
    /\ error = "none"
    /\ Len(req.bundle) = 2
    /\ nextCalls = 1

\* C6: an entry whose decoded expiry is at or before the time of restoration
\* is not in the restored cookie header, though it decrypts and decodes.
C6_ExpiredDropped ==
    (pc = "downstream" /\ xCookies.truthy)
    => \A i \in DOMAIN xCookies.obj :
          (Intact(xCookies.obj[i]) /\ SealedExpiry(xCookies.obj[i]) <= now)
          => \A j \in DOMAIN reqCookie.pairs :
                reqCookie.pairs[j].name # SealedPair(xCookies.obj[i]).name

\* C6 witness: of two intact entries, the one whose expiry is exactly the time
\* of restoration was left out and the other restored
C6_Witness ==
    /\ pc = "downstream" /\ xCookies.truthy
    /\ Len(reqCookie.pairs) = 1
    /\ \E i \in DOMAIN xCookies.obj :
          Intact(xCookies.obj[i]) /\ SealedExpiry(xCookies.obj[i]) = now
    /\ \A i \in DOMAIN xCookies.obj : Intact(xCookies.obj[i])

\* C7: every entry sealed at finalization carries min(declared expiry, time of
\* finalization + 20 minutes), the declared expiry being that of the cookie
\* last set under its name; a cookie that declares an hour, or nothing, is
\* stored with the ceiling.
C7_Clamped ==
    fired
    => /\ \A i \in DOMAIN locals.obj :
            /\ Intact(locals.obj[i])
            /\ SealedExpiry(locals.obj[i]) <= origin.at + TwentyMinutes
            /\ \E j \in LastOfName(rawCookies) :
                  /\ rawCookies[j].name = SealedPair(locals.obj[i]).name
                  /\ SealedExpiry(locals.obj[i]) =
                        EffectiveExpiry(rawCookies[j], origin.at)
                  /\ ExpiresAfter(rawCookies[j], origin.at + TwentyMinutes)
                        => SealedExpiry(locals.obj[i]) = origin.at + TwentyMinutes
       /\ \A j \in DOMAIN rawCookies :
            \E i \in DOMAIN locals.obj :
                SealedPair(locals.obj[i]).name = rawCookies[j].name

\* C7 witness: one response sealed a cookie that declared an hour with the
\* ceiling and a cookie that declared ten minutes with its own expiry
C7_Witness ==
    /\ fired
    /\ \E i, j \in DOMAIN rawCookies :
          /\ rawCookies[i].hasExpires /\ rawCookies[i].expires = 6 * TickMs
          /\ rawCookies[j].hasExpires /\ rawCookies[j].expires = TickMs
    /\ \E i, j \in DOMAIN locals.obj :
          /\ SealedExpiry(locals.obj[i]) = origin.at + TwentyMinutes
          /\ SealedExpiry(locals.obj[j]) < origin.at + TwentyMinutes

\* the properties of inbound and outbound bundle the hash is to cover:
\* outbound wins a collision
UnionOf(inbound, outbound) ==
    {outbound[i] : i \in DOMAIN outbound}
    \cup {inbound[i] : i \in {j \in DOMAIN inbound : ~ObjHas(outbound, inbound[j].k)}}

\* C8: when the request carried a valid bundle, after finalization the
\* response has the new bundle in X-cookies and in x-cookies-hash the keyed
\* hash over the union of the inbound and the new bundle, sorted by name, the
\* new bundle's value winning where both hold a name.
C8_AjaxDelivery ==
    (fired /\ xCookies.truthy)
    => /\ resXCookies.set
       /\ resXCookies.text = JSONstringify(JObject(locals.obj))
       /\ \A c \in written :
            \E i \in DOMAIN locals.obj : SealedPair(locals.obj[i]).name = c.name
       /\ resHash.set
       /\ resHash.val.secret = encryptionKey
       /\ LET text == resHash.val.text
          IN /\ {text[i] : i \in DOMAIN text} = UnionOf(xCookies.obj, locals.obj)
             /\ \A i \in DOMAIN text : \A j \in DOMAIN text :
                   i < j => TokenRank(text[i].k) < TokenRank(text[j].k)

\* C8 witness: the new bundle replaced the value of one inbound name and left
\* another inbound name alone
C8_Witness ==
    /\ fired /\ xCookies.truthy
    /\ resHash.set
    /\ \E i \in DOMAIN xCookies.obj :
          /\ ObjHas(locals.obj, xCookies.obj[i].k)
          /\ ObjGet(locals.obj, xCookies.obj[i].k) # xCookies.obj[i].v
    /\ \E i \in DOMAIN xCookies.obj : ~ObjHas(locals.obj, xCookies.obj[i].k)

\* C9 as stated: after any setCookies calls, getCookies() is the JSON text of
\* the merge of all the bundles passed so far, later values winning.
C9_ClientStore == getCookies = JSONstringify(JObject(clientGot))

\* C10: on a full-page render, once the head is written
\* res.locals.encryptedCookies holds one sealed entry for every cookie name
\* downstream code set before, none missing.
C10_RenderHandoff ==
    (pc = "sent" /\ ~req.xhr)
    => /\ locals.set
       /\ \A c \in written :
            \E i \in DOMAIN locals.obj :
                Intact(locals.obj[i]) /\ SealedPair(locals.obj[i]).name = c.name
       /\ Len(locals.obj) = Cardinality({c.name : c \in written})

\* C10 witness: the head of a full-page render was written after two cookies
\* of different names were set, one of them in an array
C10_Witness ==
    /\ pc = "sent" /\ ~req.xhr
    /\ Len(locals.obj) = 2
    /\ nativeSetCookie.set /\ nativeSetCookie.isArray

\* the same properties as o, inserted in every other order
Reorderings(o) ==
    {[i \in DOMAIN o |-> o[f[i]]] : f \in Permutations(DOMAIN o)}

\* C11: two cookie maps that hold the same name/value pairs, for either input
\* of hashCookies, give the same digest whatever the insertion order of
\* either, and the empty set hashes the empty string.
C11_HashDeterministic ==
    hashed.set
    => /\ \A a \in Reorderings(hashed.reqCookies), b \in Reorderings(hashed.resCookies) :
            hashCookies(encryptionKey, a, b) = hashed.digest
       /\ (hashed.reqCookies = <<>> /\ hashed.resCookies = <<>>)
            => hashed.digest = hash(encryptionKey, <<>>)

\* C11 witness: a digest was taken of two maps of two names each that disagree
\* on the order of the names
C11_Witness ==
    /\ hashed.set
    /\ Len(hashed.reqCookies) = 2 /\ Len(hashed.resCookies) = 2
    /\ hashed.reqCookies[1].k = hashed.resCookies[2].k
    /\ hashed.reqCookies[1].v # hashed.resCookies[2].v

\* C12: on a response whose capture is engaged the bundle is built and
\* delivered exactly once: not while downstream code is still capturing, at
\* the first write of the head without fail, and never again at a later write
\* of the head of that response.
C12_FinalizedOnce ==
    /\ [](engaged
            => /\ pc = "downstream"
                    => listenerRuns = 0 /\ ~fired /\ ~locals.set /\ ~resXCookies.set
               /\ pc = "sent" => listenerRuns = 1 /\ fired /\ locals.set)
    /\ [][(engaged /\ pc = "sent" /\ pc' = "sent")
            => UNCHANGED <<listenerRuns, locals, resXCookies, resHash>>]_vars

\* C12 witness: the head of an engaged response was written a second time
\* after a cookie had been sealed at the first
C12_Witness ==
    /\ engaged /\ pc = "sent"
    /\ headWrites = 2
    /\ listenerRuns = 1
    /\ Len(locals.obj) >= 1

\* C13: whatever expiry a cookie declared, no entry of the bundle sealed at
\* time T is in the cookie header restored by a request handled at
\* T + 20 minutes or later.
C13_ReplayWindow ==
    (pc = "downstream" /\ page = "loaded" /\ origin.sealed /\ xCookies.truthy
        /\ now >= origin.at + 20 * 60 * 1000)
    => reqCookie.pairs = <<>>

\* C13 witness: twenty minutes after it was sealed a bundle came back intact,
\* one of its cookies having declared an hour, and nothing was restored
C13_Witness ==
    /\ pc = "downstream" /\ page = "loaded" /\ origin.sealed /\ xCookies.truthy
    /\ now = origin.at + 20 * 60 * 1000
    /\ xCookies.obj = memcookies
    /\ \E i \in DOMAIN origin.raws :
          origin.raws[i].hasExpires /\ origin.raws[i].expires > now
    /\ reqCookie.pairs = <<>>

\* the text is not that of a pair: no JSON, no array, or an array of fewer
\* than two elements
Malformed(text) ==
    \/ JSONparse(text).thrown
    \/ JSONparse(text).val.t # "array"
    \/ Len(JSONparse(text).val.elems) < 2

\* C14 as stated: an entry whose payload unseals to text that is no JSON, no
\* ordered pair or lacks a second element is skipped: nothing is raised and
\* no name=value pair is emitted for it.
C14_MalformedSkipped ==
    (pc \in {"downstream", "raised"} /\ req.channel = "header")
    => /\ error = "none"
       /\ \A i \in DOMAIN req.bundle :
            Malformed(req.bundle[i].v.pt)
            => \A j \in DOMAIN reqCookie.pairs :
                  reqCookie.pairs[j].name # req.bundle[i].k.pt.s

\* C15: when the request brought no bundle, every Set-Cookie write of
\* downstream code reaches the native setHeader with the arguments it was
\* given, captured or not; a write of any other header reaches it unchanged in
\* every case.
C15_NativePreserved ==
    pc \in {"downstream", "sent"}
    => /\ req.channel = "none" => nativeSetCookie = lastCall.setCookie
       /\ nativeOther = lastCall.other

\* C15 witness: a captured response to a request without a bundle holds both a
\* Set-Cookie header given as an array and another header
C15_Witness ==
    /\ pc \in {"downstream", "sent"}
    /\ req.channel = "none" /\ engaged
    /\ Len(rawCookies) = 2
    /\ nativeSetCookie.set /\ nativeSetCookie.isArray
    /\ nativeOther.set

\* C16: the capture and the finalization hook are installed exactly when the
\* request brought a bundle or is no AJAX request; on an AJAX request without
\* a bundle res.setHeader stays the native one, nothing is captured, no
\* listener runs, and X-cookies, x-cookies-hash and
\* res.locals.encryptedCookies are never set.
C16_Engagement ==
    pc \in {"downstream", "sent"}
    => /\ engaged <=> (req.channel # "none" \/ ~req.xhr)
       /\ (req.channel = "none" /\ req.xhr)
            => /\ rawCookies = <<>>
               /\ listenerRuns = 0 /\ ~fired
               /\ nativeSetCookie = lastCall.setCookie
               /\ ~resXCookies.set /\ ~resHash.set /\ ~locals.set

\* C16 witness: the head of the response to an AJAX request without a bundle
\* was written after downstream code had set a cookie
C16_Witness ==
    /\ pc = "sent"
    /\ req.channel = "none" /\ req.xhr
    /\ nativeSetCookie.set
    /\ ~engaged

\* C17 as stated: on a request with neither an X-cookies header nor an
\* x-cookies field in its metadata the middleware raises nothing, leaves the
\* request's cookie header as it was and calls next() exactly once.
C17_NoBundleNormal ==
    (pc \in {"downstream", "sent", "raised"} /\ req.channel = "none")
    => /\ error = "none"
       /\ reqCookie = (IF req.browserCookie THEN BrowserCookieHeader ELSE NoCookieHeader)
       /\ nextCalls = 1

\* C18: when the request has its bundle in the X-cookies header, that bundle
\* is the one trusted: a bundle in the body metadata is ignored, no
\* x-cookies-hash is asked for or checked, and the request never fails with a
\* hash error.
C18_HeaderPrecedence ==
    (pc \in {"downstream", "sent", "raised"} /\ req.channel \in {"header", "both"})
    => /\ error # MemCookiesError("BODY_COOKIE_HASH_HEADER_MISSING")
       /\ error # MemCookiesError("BODY_COOKIE_HASH_MISMATCH")
       /\ error = "none" => xCookies.truthy /\ xCookies.obj = req.bundle

\* C18 witness: a request with one bundle in its header, another in its body
\* metadata and no x-cookies-hash went through with the header's bundle
C18_Witness ==
    /\ pc = "downstream"
    /\ req.channel = "both"
    /\ req.body # req.bundle
    /\ ~req.hash.present
    /\ error = "none"
    /\ xCookies.obj = req.bundle
    /\ Len(reqCookie.pairs) >= 1

\* C19: the x-cookies-hash a response carries is the hash the restorer
\* computes over the client's merged store, the bundle it sent extended with
\* the bundle it received; and a request that brings the page's store in its
\* body metadata with the hash the page last received is accepted.
C19_HashCarriesOver ==
    /\ (pc = "sent" /\ resHash.set /\ (xCookies.truthy => req.bundle = memcookies))
            => hashMatches(extend(memcookies, Received), resHash.val)
    /\ (pc \in {"downstream", "raised"} /\ req.channel = "body"
            /\ req.body = memcookies /\ req.hash = memhash)
            => error = "none"

\* C19 witness: the response to a request that brought a store of two entries
\* replaces the value of one of them and carries a hash
C19_Witness ==
    /\ pc = "sent" /\ resHash.set
    /\ xCookies.truthy /\ req.bundle = memcookies
    /\ Len(memcookies) = 2
    /\ Len(Received) = 1
    /\ ObjHas(memcookies, Received[1].k)
    /\ ObjGet(memcookies, Received[1].k) # Received[1].v

\* the name=value pairs of the cookie strings in S
PairsOf(S) == {[name |-> c.name, value |-> c.value] : c \in S}

\* C20: however the steps of several exchanges interleave, what a response
\* delivers comes from its own exchange alone: every entry of its bundle, in
\* res.locals and in X-cookies, seals a cookie set on that response, every
\* cookie name set on it has its entry, and its hash covers its own inbound
\* bundle and its own new bundle and nothing else.
C20_Isolation ==
    \A i \in Exchanges :
        exchanges[i].pc = "sent"
        => LET e == exchanges[i]
               text == e.hashHeader.val.text
           IN /\ e.locals.set
              /\ \A j \in DOMAIN e.locals.obj :
                    SealedPair(e.locals.obj[j]) \in PairsOf(e.written)
              /\ \A c \in e.written :
                    \E j \in DOMAIN e.locals.obj :
                        SealedPair(e.locals.obj[j]).name = c.name
              /\ e.xCookiesHeader.set
              /\ e.xCookiesHeader.text = JSONstringify(JObject(e.locals.obj))
              /\ e.hashHeader.set
              /\ {text[j] : j \in DOMAIN text} = UnionOf(e.xCookies.obj, e.locals.obj)

\* C20 witness: two responses whose captures interleaved have gone out, one
\* with cookie a alone and the other with cookie b alone
C20_Witness ==
    /\ exchanges[1].pc = "sent" /\ exchanges[2].pc = "sent"
    /\ PairsOf(exchanges[1].written) = {[name |-> "a", value |-> "1"]}
    /\ PairsOf(exchanges[2].written) = {[name |-> "b", value |-> "2"]}
    /\ Len(exchanges[1].locals.obj) = 1
    /\ Len(exchanges[2].locals.obj) = 1

====
